---------------------------- MODULE Spec2Model ----------------------------
(***************************************************************************)
(* A model of the recruit dashboard (saden-motsu/aa-recruit):              *)
(*   recruit/character_event.py             the CharacterEvent record      *)
(*   recruit/character_event_converters.py  the five converters and        *)
(*                                          get_all_events                 *)
(*   recruit/views.py                       _group_character_events, index *)
(*                                                                         *)
(* The database is read-only state (db, ownership, profiles).  Every       *)
(* function of the program is an operator that returns a result record     *)
(* [raised, value]: raised names the Python exception that left the        *)
(* function ("" when it returned).  One action per callable operation      *)
(* applies the operator to the database and records what came back.        *)
(*                                                                         *)
(* Python's None is the empty tuple <<>>, a present value v is <<v>>.      *)
(***************************************************************************)
EXTENDS Integers, Sequences, FiniteSets, TLC

VARIABLES
    db,          \* the tables the converters query, each a sequence of rows
    ownership,   \* CharacterOwnership: memberaudit Character pk -> username
    profiles,    \* usernames whose UserProfile has a main character, by date joined
    pc,          \* "ready" before the call, "done" after it
    call,        \* <<operation, argument>> of the call that was made
    returned     \* the result record of that call

vars == <<db, ownership, profiles, pc, call, returned>>

(***************************************************************************)
(* Bounds of the model.                                                    *)
(***************************************************************************)
MaxContacts == 2
MaxMails == 1
MaxRecipients == 2
MaxContracts == 1
MaxItems == 2
MaxJournal == 1
MaxTransactions == 2
MaxEvents == 3
MaxRecords == 2

(***************************************************************************)
(* Python values.                                                          *)
(***************************************************************************)
None == <<>>
Some(v) == <<v>>
IsNone(x) == x = <<>>
Val(x) == x[1]

NoError == ""
Ok(v) == [raised |-> NoError, value |-> v]
Raise(e) == [raised |-> e, value |-> <<>>]
Returned(r) == r.raised = NoError

\* All sequences over S of length lo..hi.
SeqsBetween(S, lo, hi) == UNION { [1..n -> S] : n \in lo..hi }
SeqsUpTo(S, hi) == SeqsBetween(S, 0, hi)
Range(s) == { s[i] : i \in 1..Len(s) }
Map(s, Op(_)) == [i \in 1..Len(s) |-> Op(s[i])]

(***************************************************************************)
(* The entities of the database.  A memberaudit Character has its own      *)
(* primary key (pk) and refers to an EveCharacter whose character_id is    *)
(* the EVE identity: the converters read the latter through                *)
(* values_list("eve_character__character_id"), the views through           *)
(* "eve_character__character_id" -> "id".                                  *)
(***************************************************************************)
CharacterPks == {1, 2}
eve_character__character_id(pk) == 100 + pk

\* EveEntity / MailEntity rows: characters 101, 102 (the two memberaudit
\* Characters), 201, 202 (players without a memberaudit Character),
\* 301 (an NPC agent), and 401 (a corporation).
EveEntityIds == {101, 102, 201, 202, 301, 401}
is_character(id) == id < 400
is_npc(id) == id >= 300 /\ id < 400
is_npc_id(id) == id >= 300 /\ id < 400
name(id) == <<"name", id>>

Usernames == {"main-user", "other-user"}

\* Character.objects.filter(eve_character__character_ownership__user__username=u)
_get_user_characters(selected_username) ==
    { pk \in CharacterPks : Some(ownership[pk]) = selected_username }

\* character_query_set.values_list("eve_character__character_id", flat=True)
character_ids_of(character_query_set) ==
    { eve_character__character_id(pk) : pk \in character_query_set }

(***************************************************************************)
(* CharacterEvent (character_event.py): a frozen dataclass with slots, so  *)
(* these six fields are the only attributes an event has.                  *)
(***************************************************************************)
CharacterEventFields ==
    {"recruit", "other_entity", "summary", "details", "timestamp", "isk_value"}

CharacterEvent(recruit, other_entity, summary, details, timestamp, isk_value) ==
    [recruit |-> recruit, other_entity |-> other_entity, summary |-> summary,
     details |-> details, timestamp |-> timestamp, isk_value |-> isk_value]

(***************************************************************************)
(* _get_contact_events.  The queryset is filtered by character__in and by  *)
(* exclude(eve_entity__id__in=character_query_set): a queryset given to    *)
(* __in stands for the primary keys of its rows, so both compare with the  *)
(* Character pks.                                                          *)
(***************************************************************************)
\* A character holds contacts to other entities, not to itself.
ContactRows ==
    { r \in [character : CharacterPks, eve_entity : EveEntityIds, standing : {-10, 5}] :
        r.eve_entity # eve_character__character_id(r.character) }

character_contacts(character_query_set) ==
    SelectSeq(db.CharacterContact,
              LAMBDA c : /\ c.character \in character_query_set
                         /\ ~(c.eve_entity \in character_query_set))

RECURSIVE _contact_loop(_, _)
_contact_loop(contacts, result) ==
    IF contacts = <<>> THEN result
    ELSE LET character_contact == Head(contacts)
             other == character_contact.eve_entity
         IN  IF ~is_character(other) THEN _contact_loop(Tail(contacts), result)
             ELSE IF is_npc(other) THEN _contact_loop(Tail(contacts), result)
             ELSE _contact_loop(Tail(contacts),
                      Append(result,
                          CharacterEvent(character_contact.character, other,
                              Some(<<"Standings", character_contact.standing>>),
                              None, None, None)))

_get_contact_events(character_query_set) ==
    Ok(_contact_loop(character_contacts(character_query_set), <<>>))


(***************************************************************************)
(* _get_mail_events.  A mail row holds its recipients (many-to-many, so    *)
(* each MailEntity at most once) and its sender; nothing keeps the sender  *)
(* out of the recipients.  A MailEntity has the id of the EveEntity it     *)
(* stands for, and its category is CHARACTER exactly for characters.       *)
(***************************************************************************)
DistinctSeqs(S, lo, hi) ==
    { s \in SeqsBetween(S, lo, hi) : \A i, j \in 1..Len(s) : i # j => s[i] # s[j] }

\* A mailbox holds the mails its character sent or received, and those
\* addressed to its corporation.
MailRows ==
    { r \in [character : CharacterPks, sender : EveEntityIds,
             recipients : DistinctSeqs(EveEntityIds, 1, MaxRecipients),
             is_read : BOOLEAN, timestamp : {7}] :
        \/ r.sender = eve_character__character_id(r.character)
        \/ \E i \in 1..Len(r.recipients) :
              r.recipients[i] \in {eve_character__character_id(r.character), 401} }

character_mails(character_query_set) ==
    SelectSeq(db.CharacterMail, LAMBDA m : m.character \in character_query_set)

\* EveEntity.objects.get(pk=...)
EveEntity_objects_get(pk) ==
    IF pk \in EveEntityIds THEN Ok(pk) ELSE Raise("DoesNotExist")

mail_summary(character_mail) ==
    <<"Mail", name(character_mail.sender), "->",
      Map(character_mail.recipients, name)>>

_get_mail_details(character_mail) ==
    <<IF character_mail.is_read THEN "" ELSE "Unread:",
      "Subject:", "From:", name(character_mail.sender),
      "To:", Map(character_mail.recipients, name), "body_html">>

\* the inner loop: for mail_entity in mail_entities
RECURSIVE _mail_entity_loop(_, _, _, _)
_mail_entity_loop(mail_entities, character_mail, character_ids, result) ==
    IF mail_entities = <<>> THEN Ok(result)
    ELSE LET mail_entity == Head(mail_entities)
             rest == Tail(mail_entities)
         IN  IF mail_entity \in character_ids
             THEN _mail_entity_loop(rest, character_mail, character_ids, result)
             ELSE IF is_character(mail_entity) /\ is_npc_id(mail_entity)
             THEN _mail_entity_loop(rest, character_mail, character_ids, result)
             ELSE LET other == EveEntity_objects_get(mail_entity)
                  IN  IF ~Returned(other) THEN other
                      ELSE _mail_entity_loop(rest, character_mail, character_ids,
                               Append(result,
                                   CharacterEvent(character_mail.character,
                                       other.value,
                                       Some(mail_summary(character_mail)),
                                       Some(_get_mail_details(character_mail)),
                                       Some(character_mail.timestamp), None)))

\* the outer loop: for character_mail in character_mails
RECURSIVE _mail_loop(_, _, _)
_mail_loop(mails, character_ids, result) ==
    IF mails = <<>> THEN Ok(result)
    ELSE LET character_mail == Head(mails)
             mail_entities == Append(character_mail.recipients, character_mail.sender)
             inner == _mail_entity_loop(mail_entities, character_mail,
                                        character_ids, result)
         IN  IF ~Returned(inner) THEN inner
             ELSE _mail_loop(Tail(mails), character_ids, inner.value)

_get_mail_events(character_query_set) ==
    _mail_loop(character_mails(character_query_set),
               character_ids_of(character_query_set), <<>>)


(***************************************************************************)
(* _get_character_contracts.  A contract row: assignee, acceptor and       *)
(* issuer are optional EveEntity ids; availability is what                 *)
(* get_availability_display() returns and summary what summary() returns;  *)
(* items are the rows of contract.items, each with its quantity, its       *)
(* optional raw_quantity and the average_price reached through             *)
(* eve_type__market_price (None when the type has no price row or the row  *)
(* has no average price).                                                  *)
(***************************************************************************)
Truthy(opt) == opt # None /\ Val(opt) # 0

ItemRows ==
    [quantity : {1, 2}, raw_quantity : {None, Some(-1), Some(0)},
     eve_type : {34}, average_price : {None, Some(100), Some(500)}]

PartyIds == {101, 201, 202, 301, 401}
OptPartyIds == {None} \cup { Some(e) : e \in PartyIds }

Contract(character, assignee, acceptor, issuer, availability, rich) ==
    [character |-> character, assignee |-> assignee, acceptor |-> acceptor,
     issuer |-> issuer, availability |-> availability,
     summary |-> "Item Exchange",
     title |-> IF rich THEN "<t>" ELSE "",
     status |-> "finished",
     price |-> IF rich THEN Some(5) ELSE None,
     reward |-> IF rich THEN Some(0) ELSE None,
     collateral |-> None,
     buyout |-> IF rich THEN Some(6) ELSE None,
     date_completed |-> IF rich THEN Some(9) ELSE None,
     date_expired |-> Some(8),
     date_accepted |-> None,
     date_issued |-> Some(1),
     items |-> <<>>]

\* the contracts that differ in their parties
ContractPartyRows ==
    { Contract(c, a, b, Some(i), v, FALSE) :
        c \in CharacterPks, a \in OptPartyIds, b \in OptPartyIds,
        i \in PartyIds, v \in {"", "public"} }

\* the contracts that differ in what they hold
ContractItemRows ==
    { Contract(c, Some(201), None, Some(101), "personal", TRUE) :
        c \in CharacterPks }

contracts_of(character_query_set) ==
    SelectSeq(db.CharacterContract, LAMBDA c : c.character \in character_query_set)

\* for entity in (a, b, ...): the first that is a character, not an NPC and
\* not one of character_ids.  Shared by the three private _counterparty helpers.
RECURSIVE first_counterparty(_, _)
first_counterparty(entities, character_ids) ==
    IF entities = <<>> THEN None
    ELSE LET entity == Head(entities)
         IN  IF IsNone(entity) \/ ~is_character(Val(entity)) \/ is_npc(Val(entity))
             THEN first_counterparty(Tail(entities), character_ids)
             ELSE IF Val(entity) \in character_ids
             THEN first_counterparty(Tail(entities), character_ids)
             ELSE entity

contract_counterparty(contract, character_ids) ==
    first_counterparty(<<contract.assignee, contract.acceptor, contract.issuer>>,
                       character_ids)

\* _contract_summary: contract.assignee.name is read whenever the
\* availability label is not empty.
_contract_summary(contract) ==
    LET parts1 == IF contract.summary # ""
                  THEN << <<"Summary:", contract.summary>> >> ELSE <<>>
        parts2 == IF ~IsNone(contract.issuer)
                  THEN Append(parts1, <<"Contractor:", Val(contract.issuer)>>)
                  ELSE parts1
    IN  IF contract.availability # ""
        THEN IF IsNone(contract.assignee)
             THEN Raise("AttributeError")
             ELSE Ok(Append(parts2,
                        <<"Availability:", contract.availability,
                          name(Val(contract.assignee))>>))
        ELSE Ok(parts2)

\* contract.items.all().exclude(raw_quantity__lt=0).aggregate(total=Sum(
\*     F("quantity") * F("eve_type__market_price__average_price")))
\* SQL's SUM skips the NULL products and is NULL when it summed nothing.
\* a bug: the items with a negative raw_quantity are not excluded
valued_items_keeping_negative(items) ==
    SelectSeq(items, LAMBDA item : item.average_price # None)

valued_items(items) ==
    SelectSeq(items,
              LAMBDA item : /\ ~(item.raw_quantity # None /\ Val(item.raw_quantity) < 0)
                            /\ item.average_price # None)

RECURSIVE sum_products(_)
sum_products(items) ==
    IF items = <<>> THEN 0
    ELSE Head(items).quantity * Val(Head(items).average_price)
         + sum_products(Tail(items))

_isk_value(contract) ==
    IF valued_items(contract.items) = <<>> THEN None
    ELSE Some(sum_products(valued_items(contract.items)))

_contract_details(contract, isk_value) ==
    LET title_part == IF contract.title # ""
                      THEN << <<"Info by Issuer:", "html.escape", contract.title>> >>
                      ELSE <<>>
        status_part == << <<"Status:", contract.status>> >>
        field(label, opt) == IF Truthy(opt) THEN << <<label, Val(opt)>> >> ELSE <<>>
        isk_fields == field("ISK Value:", isk_value) \o field("Price:", contract.price)
                      \o field("Reward:", contract.reward)
                      \o field("Collateral:", contract.collateral)
                      \o field("Buyout:", contract.buyout)
        isk_part == IF isk_fields # <<>> THEN <<isk_fields>> ELSE <<>>
        item_parts == [i \in 1..Len(contract.items) |->
                          <<contract.items[i].quantity, "x",
                            contract.items[i].eve_type>>]
    IN  title_part \o status_part \o isk_part \o item_parts

contract_timestamp(contract) ==
    IF ~IsNone(contract.date_completed) THEN contract.date_completed
    ELSE IF ~IsNone(contract.date_expired) THEN contract.date_expired
    ELSE IF ~IsNone(contract.date_accepted) THEN contract.date_accepted
    ELSE contract.date_issued

RECURSIVE _contract_loop(_, _, _)
_contract_loop(contracts, character_ids, events) ==
    IF contracts = <<>> THEN Ok(events)
    ELSE LET contract == Head(contracts)
             other == contract_counterparty(contract, character_ids)
         IN  IF IsNone(other)
             THEN _contract_loop(Tail(contracts), character_ids, events)
             ELSE LET isk_value == _isk_value(contract)
                      summary == _contract_summary(contract)
                  IN  IF ~Returned(summary) THEN summary
                      ELSE _contract_loop(Tail(contracts), character_ids,
                               Append(events,
                                   CharacterEvent(contract.character, Val(other),
                                       Some(summary.value),
                                       Some(_contract_details(contract, isk_value)),
                                       contract_timestamp(contract),
                                       isk_value)))

_get_character_contracts(character_query_set) ==
    _contract_loop(contracts_of(character_query_set),
                   character_ids_of(character_query_set), <<>>)


(***************************************************************************)
(* _get_wallet_journal_entries.  details is a Python string built with     *)
(* details += f"{details}\n...": it is modelled as the sequence of its     *)
(* lines, so that += appends the old lines and then the new one.           *)
(***************************************************************************)
JournalPartyIds == {101, 201, 301, 401}
OptJournalPartyIds == {None} \cup { Some(e) : e \in JournalPartyIds }

JournalRows ==
    [character : CharacterPks, first_party : OptJournalPartyIds,
     second_party : OptJournalPartyIds,
     ref_type : {"player_donation", "bounty_prizes"},
     context_id : {None, Some(55)}, reason : {"", "gift"},
     date : {4}, amount : {-5, 5}]

journal_entries_of(character_query_set) ==
    SelectSeq(db.CharacterWalletJournalEntry,
              LAMBDA e : e.character \in character_query_set)

journal_counterparty(entry, character_ids) ==
    first_counterparty(<<entry.first_party, entry.second_party>>, character_ids)

journal_details(entry) ==
    LET details0 == <<>>
        details1 == IF Truthy(entry.context_id)
                    THEN details0 \o (details0 \o
                             << <<"Context:", "context_id_type", Val(entry.context_id)>> >>)
                    ELSE details0
        details2 == IF entry.reason # ""
                    THEN details1 \o (details1 \o << <<"Reason:", entry.reason>> >>)
                    ELSE details1
    IN  IF details2 = <<>> THEN None ELSE Some(details2)

RECURSIVE _journal_loop(_, _, _)
_journal_loop(entries, character_ids, events) ==
    IF entries = <<>> THEN Ok(events)
    ELSE LET entry == Head(entries)
             other == journal_counterparty(entry, character_ids)
         IN  IF IsNone(other)
             THEN _journal_loop(Tail(entries), character_ids, events)
             ELSE IF entry.ref_type # "player_donation"
             THEN _journal_loop(Tail(entries), character_ids, events)
             ELSE _journal_loop(Tail(entries), character_ids,
                      Append(events,
                          CharacterEvent(entry.character, Val(other),
                              Some(<<"Title", entry.ref_type>>),
                              journal_details(entry),
                              Some(entry.date), Some(entry.amount))))

_get_wallet_journal_entries(character_query_set) ==
    _journal_loop(journal_entries_of(character_query_set),
                  character_ids_of(character_query_set), <<>>)

(***************************************************************************)
(* _get_wallet_transactions.  market_price is the row reached through      *)
(* tx.eve_type.market_price: None when the type has no price row, else     *)
(* <<average_price>> with average_price itself optional.  Reading          *)
(* .average_price of a missing row raises at the attribute access, before  *)
(* the try of _ratio.                                                      *)
(***************************************************************************)
MinTotalPrice == 10000000

TransactionRows ==
    [character : CharacterPks,
     client : {None, Some(101), Some(201), Some(301), Some(401)},
     market_price : {None, Some(None), Some(Some(0)), Some(Some(1000))},
     unit_price : {100, 150, 2000},
     quantity : {99999, 100000},
     is_buy : {TRUE}, date : {6}]

transactions_of(character_query_set) ==
    SelectSeq(db.CharacterWalletTransaction,
              LAMBDA t : t.character \in character_query_set)

transaction_counterparty(tx, character_ids) ==
    LET client == tx.client
    IN  IF IsNone(client) \/ ~is_character(Val(client)) \/ is_npc(Val(client))
        THEN None
        ELSE IF Val(client) \in character_ids THEN None
        ELSE client

\* _ratio: Ok(None), or Ok(<<unit_price, market_price>>) for the quotient
\* Decimal(unit_price) / Decimal(market_price).  With a positive divisor
\* and numbers from the database neither conversion nor division raises.
_ratio(tx) ==
    IF IsNone(tx.market_price) THEN Raise("RelatedObjectDoesNotExist")
    ELSE LET market_price == Val(tx.market_price)
         IN  IF IsNone(market_price) \/ Val(market_price) <= 0
             THEN Ok(None)
             ELSE Ok(Some(<<tx.unit_price, Val(market_price)>>))

\* Decimal("0.1") < ratio < Decimal("2"), for ratio = n / d with d > 0
ratio_in_dead_zone(ratio) ==
    LET n == Val(ratio)[1]
        d == Val(ratio)[2]
    IN  d < 10 * n /\ n < 2 * d

RECURSIVE _transaction_loop(_, _, _)
_transaction_loop(transactions, character_ids, events) ==
    IF transactions = <<>> THEN Ok(events)
    ELSE LET transaction == Head(transactions)
             rest == Tail(transactions)
             other == transaction_counterparty(transaction, character_ids)
         IN  IF IsNone(other) THEN _transaction_loop(rest, character_ids, events)
             ELSE LET ratio == _ratio(transaction)
                  IN  IF ~Returned(ratio) THEN ratio
                      ELSE IF IsNone(ratio.value) \/ ratio_in_dead_zone(ratio.value)
                      THEN _transaction_loop(rest, character_ids, events)
                      ELSE IF transaction.quantity * transaction.unit_price
                                  < MinTotalPrice
                      THEN _transaction_loop(rest, character_ids, events)
                      ELSE _transaction_loop(rest, character_ids,
                               Append(events,
                                   CharacterEvent(transaction.character, Val(other),
                                       Some(<<IF transaction.is_buy THEN "Buy" ELSE "Sell",
                                              transaction.quantity>>),
                                       Some(<< <<"Unit:", transaction.unit_price>>,
                                               <<"Avg:", Val(ratio.value)[2]>>,
                                               <<"permille of avg",
                                                 (Val(ratio.value)[1] * 1000)
                                                     \div Val(ratio.value)[2]>> >>),
                                       Some(transaction.date),
                                       Some(transaction.unit_price
                                            * transaction.quantity))))

_get_wallet_transactions(character_query_set) ==
    _transaction_loop(transactions_of(character_query_set),
                      character_ids_of(character_query_set), <<>>)

(***************************************************************************)
(* get_all_events: the five converters in order, no handler around any of  *)
(* them, so the first exception leaves get_all_events.                     *)
(***************************************************************************)
get_all_events(character_query_set) ==
    LET contact_events == _get_contact_events(character_query_set)
        mail_events == _get_mail_events(character_query_set)
        character_contract_events == _get_character_contracts(character_query_set)
        wallet_events == _get_wallet_journal_entries(character_query_set)
        wallet_transaction_events == _get_wallet_transactions(character_query_set)
    IN  IF ~Returned(contact_events) THEN contact_events
        ELSE IF ~Returned(mail_events) THEN mail_events
        ELSE IF ~Returned(character_contract_events) THEN character_contract_events
        ELSE IF ~Returned(wallet_events) THEN wallet_events
        ELSE IF ~Returned(wallet_transaction_events) THEN wallet_transaction_events
        ELSE Ok(contact_events.value \o mail_events.value
                \o character_contract_events.value \o wallet_events.value
                \o wallet_transaction_events.value)


(***************************************************************************)
(* _group_character_events (views.py).  grouped_events is a dict, which    *)
(* keeps its keys in order of first insertion: a sequence of               *)
(* <<key, events>> pairs.  The key reads other_character_id and            *)
(* other_character_name off the event.                                     *)
(***************************************************************************)
datetime_max == 99999999

\* Python attribute access: obj.attr
getattr(obj, attr) ==
    IF attr \in CharacterEventFields THEN Ok(obj[attr]) ELSE Raise("AttributeError")

\* key=lambda x: (x.timestamp is None, x.timestamp or datetime.max)
sort_key(x) ==
    <<x.timestamp = None, IF x.timestamp # None THEN Val(x.timestamp) ELSE datetime_max>>

\* tuple comparison a < b of two sort keys (False < True)
key_less(a, b) ==
    \/ (~a[1] /\ b[1])
    \/ (a[1] = b[1] /\ a[2] < b[2])

\* list.sort is stable: x goes after every element whose key is not greater
RECURSIVE insert_sorted(_, _)
insert_sorted(sorted, x) ==
    IF sorted = <<>> THEN <<x>>
    ELSE IF key_less(sort_key(x), sort_key(Head(sorted)))
    THEN <<x>> \o sorted
    ELSE <<Head(sorted)>> \o insert_sorted(Tail(sorted), x)

RECURSIVE sort_events(_, _)
sort_events(character_events, sorted) ==
    IF character_events = <<>> THEN sorted
    ELSE sort_events(Tail(character_events),
                     insert_sorted(sorted, Head(character_events)))

\* grouped_events[key].append(character_event)
dict_append(grouped_events, key, character_event) ==
    IF \E i \in 1..Len(grouped_events) : grouped_events[i][1] = key
    THEN [i \in 1..Len(grouped_events) |->
             IF grouped_events[i][1] = key
             THEN <<key, Append(grouped_events[i][2], character_event)>>
             ELSE grouped_events[i]]
    ELSE Append(grouped_events, <<key, <<character_event>> >>)

\* the first loop: for character_event in character_events
RECURSIVE _grouping_loop(_, _)
_grouping_loop(character_events, grouped_events) ==
    IF character_events = <<>> THEN Ok(grouped_events)
    ELSE LET character_event == Head(character_events)
             other_character_id == getattr(character_event, "other_character_id")
             other_character_name == getattr(character_event, "other_character_name")
         IN  IF ~Returned(other_character_id) THEN other_character_id
             ELSE IF ~Returned(other_character_name) THEN other_character_name
             ELSE _grouping_loop(Tail(character_events),
                      dict_append(grouped_events,
                          <<other_character_id.value, other_character_name.value>>,
                          character_event))

\* the second loop: one (character_name, evewho, sorted events) per key
group_result(entry) ==
    <<entry[1][2], <<"https://evewho.com/character/", entry[1][1]>>,
      sort_events(entry[2], <<>>)>>

_group_character_events(character_events) ==
    LET grouped_events == _grouping_loop(character_events, <<>>)
    IN  IF ~Returned(grouped_events) THEN grouped_events
        ELSE Ok(Map(grouped_events.value, group_result))

(***************************************************************************)
(* index (views.py), behind login_required and permission_required.        *)
(***************************************************************************)
character_name(pk) == <<"character_name", eve_character__character_id(pk)>>

\* UserProfile rows with a main character, ordered by user__date_joined
_get_main_characters == Map(profiles, LAMBDA u : <<u, <<"main of", u>> >>)

\* the pks of a queryset as a list (the order of order_by("skillpoints__total"))
RECURSIVE as_list(_)
as_list(character_query_set) ==
    IF character_query_set = {} THEN <<>>
    ELSE LET pk == CHOOSE p \in character_query_set :
                       \A q \in character_query_set : p <= q
         IN  <<pk>> \o as_list(character_query_set \ {pk})

_get_character_names(character_query_set) ==
    Map(as_list(character_query_set), LAMBDA pk : <<"quote", character_name(pk)>>)

_get_blacklist_url(character_names) ==
    IF character_names = <<>> THEN None
    ELSE Some(<<"https://gice.goonfleet.com/Blacklist?q=", ",", character_names>>)

_get_eve411_url(character_names) ==
    IF character_names = <<>> THEN None
    ELSE Some(<<"https://www.eve411.com/local?pilots=", "%0A", character_names>>)

\* id and name of each character; wallet_isk, total_sp and asset_value come
\* from tables no converter reads
_map_character_attributes(character_query_set) ==
    Map(as_list(character_query_set),
        LAMBDA pk : [id |-> eve_character__character_id(pk), name |-> character_name(pk)])

index(GET_selected_username, authorized) ==
    IF ~authorized THEN Ok([status_code |-> 302, context |-> None])
    ELSE
    LET main_characters == _get_main_characters
        selected_username == IF IsNone(GET_selected_username) /\ main_characters # <<>>
                             THEN Some(main_characters[1][1])
                             ELSE GET_selected_username
        user_characters == _get_user_characters(selected_username)
        events == get_all_events(user_characters)
        character_names == _get_character_names(user_characters)
        grouped == _group_character_events(events.value)
    IN  IF ~Returned(events) THEN events
        ELSE IF ~Returned(grouped) THEN grouped
        ELSE Ok([status_code |-> 200,
                 context |-> Some(
                    [main_characters |-> main_characters,
                     selected_username |-> selected_username,
                     user_characters |-> _map_character_attributes(user_characters),
                     blacklist_url |-> _get_blacklist_url(character_names),
                     eve411_url |-> _get_eve411_url(character_names),
                     character_grouped_events |-> grouped.value])])


(***************************************************************************)
(* The state machine.  The tables start empty and are filled by the        *)
(* synchronisation that runs outside this program, one row at a time, up   *)
(* to the bounds; then one operation is called and its result recorded.    *)
(***************************************************************************)
EmptyDb ==
    [CharacterContact |-> <<>>, CharacterMail |-> <<>>, CharacterContract |-> <<>>,
     CharacterWalletJournalEntry |-> <<>>, CharacterWalletTransaction |-> <<>>]

TotalRows ==
    Len(db.CharacterContact) + Len(db.CharacterMail) + Len(db.CharacterContract)
    + Len(db.CharacterWalletJournalEntry) + Len(db.CharacterWalletTransaction)

TotalItems(contracts) ==
    LET counts == [i \in 1..Len(contracts) |-> Len(contracts[i].items)]
        sum[i \in 0..Len(contracts)] == IF i = 0 THEN 0 ELSE sum[i - 1] + counts[i]
    IN  sum[Len(contracts)]

\* Character 1 belongs to main-user; character 2 to either user.
Ownerships == { [pk \in CharacterPks |-> IF pk = 1 THEN "main-user" ELSE u] :
                u \in Usernames }

Init ==
    /\ db = EmptyDb
    /\ ownership \in Ownerships
    /\ profiles \in {<<>>, <<"main-user", "other-user">>}
    /\ pc = "ready"
    /\ call = <<>>
    /\ returned = Ok(<<>>)

\* the same, with every user having a main character
InitMains ==
    /\ Init
    /\ profiles # <<>>

Insert(table, row) ==
    /\ pc = "ready"
    /\ db' = [db EXCEPT ![table] = Append(@, row)]
    /\ UNCHANGED <<ownership, profiles, pc, call, returned>>

Call(operation, argument, result) ==
    /\ pc = "ready"
    /\ pc' = "done"
    /\ call' = <<operation, argument>>
    /\ returned' = result
    /\ UNCHANGED <<db, ownership, profiles>>

InsertContact ==
    /\ Len(db.CharacterContact) < MaxContacts
    /\ \E row \in ContactRows : Insert("CharacterContact", row)

InsertMail ==
    /\ Len(db.CharacterMail) < MaxMails
    /\ \E row \in MailRows : Insert("CharacterMail", row)

InsertContract ==
    /\ Len(db.CharacterContract) < MaxContracts
    /\ \E row \in ContractPartyRows : Insert("CharacterContract", row)

InsertItemContract ==
    /\ Len(db.CharacterContract) < MaxContracts
    /\ \E row \in ContractItemRows : Insert("CharacterContract", row)

InsertContractItem ==
    /\ pc = "ready"
    /\ TotalItems(db.CharacterContract) < MaxItems
    /\ \E i \in 1..Len(db.CharacterContract), item \in ItemRows :
          db' = [db EXCEPT !.CharacterContract[i].items = Append(@, item)]
    /\ UNCHANGED <<ownership, profiles, pc, call, returned>>

InsertJournalEntry ==
    /\ Len(db.CharacterWalletJournalEntry) < MaxJournal
    /\ \E row \in JournalRows : Insert("CharacterWalletJournalEntry", row)

InsertTransaction ==
    /\ Len(db.CharacterWalletTransaction) < MaxTransactions
    /\ \E row \in TransactionRows : Insert("CharacterWalletTransaction", row)

CallGetContactEvents ==
    \E u \in Usernames :
        LET character_query_set == _get_user_characters(Some(u))
        IN  Call("_get_contact_events", character_query_set,
                 _get_contact_events(character_query_set))

CallGetMailEvents ==
    \E u \in Usernames :
        LET character_query_set == _get_user_characters(Some(u))
        IN  Call("_get_mail_events", character_query_set,
                 _get_mail_events(character_query_set))

CallGetCharacterContracts ==
    \E u \in Usernames :
        LET character_query_set == _get_user_characters(Some(u))
        IN  Call("_get_character_contracts", character_query_set,
                 _get_character_contracts(character_query_set))

CallGetWalletJournalEntries ==
    \E u \in Usernames :
        LET character_query_set == _get_user_characters(Some(u))
        IN  Call("_get_wallet_journal_entries", character_query_set,
                 _get_wallet_journal_entries(character_query_set))

CallGetWalletTransactions ==
    \E u \in Usernames :
        LET character_query_set == _get_user_characters(Some(u))
        IN  Call("_get_wallet_transactions", character_query_set,
                 _get_wallet_transactions(character_query_set))

CallGetAllEvents ==
    \E u \in Usernames :
        LET character_query_set == _get_user_characters(Some(u))
        IN  Call("get_all_events", character_query_set,
                 get_all_events(character_query_set))

\* the events handed to _group_character_events
GroupedEventInputs ==
    SeqsUpTo({ CharacterEvent(1, o, Some(s), None, t, None) :
                 o \in {201, 202}, s \in {"a", "b"}, t \in {None, Some(1), Some(2)} },
             MaxEvents)

CallGroupCharacterEvents ==
    \E character_events \in GroupedEventInputs :
        Call("_group_character_events", character_events,
             _group_character_events(character_events))

CallIndex ==
    \E GET_selected_username \in {None} \cup { Some(u) : u \in Usernames \cup {"nobody"} },
       authorized \in BOOLEAN :
        Call("index", <<GET_selected_username, authorized>>,
             index(GET_selected_username, authorized))

\* The rows of a request's database: a few of each table.
RequestContactRows ==
    { r \in ContactRows : r.character = 1 /\ r.standing = 5 /\ r.eve_entity \in {102, 201} }
RequestMailRows ==
    { r \in MailRows : /\ r.character = 1 /\ r.sender = 201 /\ r.is_read
                       /\ r.recipients \in {<<101>>, <<101, 202>>} }
RequestContractRows ==
    { r \in ContractPartyRows : /\ r.character = 1 /\ r.availability = "public"
                                /\ r.issuer = Some(101) /\ r.acceptor = None
                                /\ r.assignee \in {None, Some(201)} }
    \cup
    { r \in ContractPartyRows : /\ r.character = 1 /\ r.availability = "public"
                                /\ r.issuer = Some(101) /\ r.acceptor = Some(202)
                                /\ r.assignee = None }
RequestJournalRows ==
    { r \in JournalRows : /\ r.character = 1 /\ r.ref_type = "player_donation"
                          /\ r.first_party = Some(201) /\ r.second_party = Some(101)
                          /\ r.context_id = None /\ r.amount = 5 }
RequestTransactionRows ==
    { r \in TransactionRows : /\ r.character = 1 /\ r.client = Some(201)
                              /\ r.unit_price = 100 /\ r.quantity = 100000
                              /\ r.market_price \in {None, Some(Some(1000))} }

Populate ==
    /\ TotalRows < MaxRecords
    /\ \/ \E row \in RequestContactRows : Insert("CharacterContact", row)
       \/ \E row \in RequestMailRows : Insert("CharacterMail", row)
       \/ \E row \in RequestContractRows : Insert("CharacterContract", row)
       \/ \E row \in RequestJournalRows : Insert("CharacterWalletJournalEntry", row)
       \/ \E row \in RequestTransactionRows : Insert("CharacterWalletTransaction", row)

NextContacts == InsertContact \/ CallGetContactEvents
NextMail == InsertMail \/ CallGetMailEvents
NextContracts == InsertContract \/ CallGetCharacterContracts
NextContractItems == InsertItemContract \/ InsertContractItem \/ CallGetCharacterContracts
NextJournal == InsertJournalEntry \/ CallGetWalletJournalEntries
NextTransactions == InsertTransaction \/ CallGetWalletTransactions
NextGroup == CallGroupCharacterEvents
Next == Populate \/ CallGetAllEvents \/ CallIndex

SpecContacts == InitMains /\ [][NextContacts]_vars
SpecMail == InitMains /\ [][NextMail]_vars
SpecContracts == InitMains /\ [][NextContracts]_vars
SpecContractItems == InitMains /\ [][NextContractItems]_vars
SpecJournal == InitMains /\ [][NextJournal]_vars
SpecTransactions == InitMains /\ [][NextTransactions]_vars
SpecGroup == InitMains /\ [][NextGroup]_vars
Spec == Init /\ [][Next]_vars


(***************************************************************************)
(* The claims.  Done(op) says that operation op was called and has ended;  *)
(* Emitted is the list of events the call handed back, empty when it       *)
(* raised.                                                                 *)
(***************************************************************************)
Done(operation) == pc = "done" /\ call[1] = operation
Emitted == IF Returned(returned) THEN returned.value ELSE <<>>
OwnedIds == character_ids_of(call[2])

\* an existing, non-NPC character outside the owned set
Qualifies(entity) ==
    /\ entity # None
    /\ is_character(Val(entity))
    /\ ~is_npc(Val(entity))
    /\ Val(entity) \notin OwnedIds

\* the distinct other_entity values of a list of events, by first appearance
RECURSIVE FirstAppearances(_, _)
FirstAppearances(events, seen) ==
    IF events = <<>> THEN seen
    ELSE FirstAppearances(Tail(events),
             IF Head(events).other_entity \in Range(seen) THEN seen
             ELSE Append(seen, Head(events).other_entity))

EventsOf(events, other) == SelectSeq(events, LAMBDA e : e.other_entity = other)

TimeOrdered(events) ==
    \A i, j \in 1..Len(events) :
        i < j => /\ events[i].timestamp = None => events[j].timestamp = None
                 /\ (events[i].timestamp # None /\ events[j].timestamp # None)
                        => Val(events[i].timestamp) <= Val(events[j].timestamp)

\* C1: grouping returns groups holding the events it was given, and in every
\* group the events ascend by timestamp with every event without a timestamp
\* after every event of the group that has one.
C1_GroupsAscendAbsentLast ==
    Done("_group_character_events") =>
        /\ Returned(returned)
        /\ \A e \in Range(call[2]) :
               \E g \in 1..Len(returned.value) : e \in Range(returned.value[g][3])
        /\ \A g \in 1..Len(returned.value) : TimeOrdered(returned.value[g][3])

\* C2: grouping returns one group per distinct counterparty, in order of the
\* counterparty's first appearance in the input, each group named after the
\* counterparty and holding exactly the input's events of that counterparty.
C2_OneGroupPerCounterparty ==
    Done("_group_character_events") =>
        LET firsts == FirstAppearances(call[2], <<>>)
        IN  /\ Returned(returned)
            /\ Len(returned.value) = Len(firsts)
            /\ \A g \in 1..Len(firsts) :
                  /\ returned.value[g][1] = name(firsts[g])
                  /\ Len(returned.value[g][3]) = Len(EventsOf(call[2], firsts[g]))
                  /\ Range(returned.value[g][3]) = Range(EventsOf(call[2], firsts[g]))

\* the first of assignee, acceptor, issuer that qualifies; None when none does
FirstQualifying(contract) ==
    IF Qualifies(contract.assignee) THEN contract.assignee
    ELSE IF Qualifies(contract.acceptor) THEN contract.acceptor
    ELSE IF Qualifies(contract.issuer) THEN contract.issuer
    ELSE None

OwnedContracts == SelectSeq(db.CharacterContract, LAMBDA c : c.character \in call[2])

\* C3: the contracts converter emits nothing for a contract of an owned
\* character without a qualifying candidate, and otherwise exactly one event,
\* whose other_entity is the first qualifying of assignee, acceptor, issuer.
C3_OneEventPerQualifyingContract ==
    Done("_get_character_contracts") =>
        LET qualifying == SelectSeq(OwnedContracts,
                                    LAMBDA c : FirstQualifying(c) # None)
        IN  /\ Len(Emitted) = Len(qualifying)
            /\ \A k \in 1..Len(qualifying) :
                  /\ Emitted[k].recruit = qualifying[k].character
                  /\ Emitted[k].other_entity = Val(FirstQualifying(qualifying[k]))

\* the outside participants of a mail: senders or recipients that are neither
\* owned nor NPC characters
OutsideParticipants(mail) ==
    { e \in Range(mail.recipients) \cup {mail.sender} :
        e \notin OwnedIds /\ ~(is_character(e) /\ is_npc_id(e)) }

RECURSIVE MailEventsMatch(_, _)
MailEventsMatch(mails, events) ==
    IF mails = <<>> THEN events = <<>>
    ELSE LET n == Cardinality(OutsideParticipants(Head(mails)))
         IN  /\ Len(events) >= n
             /\ { events[k].other_entity : k \in 1..n } = OutsideParticipants(Head(mails))
             /\ \A k \in 1..n : /\ events[k].recruit = Head(mails).character
                                /\ events[k].summary = events[1].summary
                                /\ events[k].details = events[1].details
                                /\ events[k].timestamp = Some(Head(mails).timestamp)
             /\ MailEventsMatch(Tail(mails), SubSeq(events, n + 1, Len(events)))

\* C4: for a mail with N outside participants the mail converter emits exactly
\* N events, one per distinct other_entity, with the same summary, details and
\* timestamp.
C4_OneEventPerOutsideParticipant ==
    Done("_get_mail_events") =>
        MailEventsMatch(SelectSeq(db.CharacterMail, LAMBDA m : m.character \in call[2]),
                        Emitted)

OwnedTransactions ==
    SelectSeq(db.CharacterWalletTransaction, LAMBDA t : t.character \in call[2])

PriceKnown(tx) == tx.market_price # None /\ Val(tx.market_price) # None
AveragePrice(tx) == Val(Val(tx.market_price))

\* the price is known and positive, unit_price / average_price is at most 0.1
\* or at least 2.0, and quantity x unit_price is at least 10,000,000
Remarkable(tx) ==
    /\ PriceKnown(tx)
    /\ AveragePrice(tx) > 0
    /\ \/ 10 * tx.unit_price <= AveragePrice(tx)
       \/ tx.unit_price >= 2 * AveragePrice(tx)
    /\ tx.quantity * tx.unit_price >= 10000000

\* C5: for the transactions with a qualifying client, the wallet-transaction
\* converter emits an event exactly for those that are remarkable.
C5_EventIffRemarkable ==
    Done("_get_wallet_transactions") =>
        LET expected == SelectSeq(OwnedTransactions,
                                  LAMBDA t : Qualifies(t.client) /\ Remarkable(t))
        IN  /\ Len(Emitted) = Len(expected)
            /\ \A k \in 1..Len(expected) :
                  /\ Emitted[k].recruit = expected[k].character
                  /\ Emitted[k].other_entity = Val(expected[k].client)
                  /\ Emitted[k].isk_value
                        = Some(expected[k].quantity * expected[k].unit_price)

\* C6: no contact event is emitted for a target that is not a character, is
\* an NPC character, or is one of the owned characters.
C6_NoContactEventForOwnedOrNpc ==
    Done("_get_contact_events") =>
        \A k \in 1..Len(Emitted) :
            /\ is_character(Emitted[k].other_entity)
            /\ ~is_npc(Emitted[k].other_entity)
            /\ Emitted[k].other_entity \notin OwnedIds

\* the sum of quantity x average price over the first n items, leaving out
\* the items whose raw quantity is negative (and those without a price)
ItemSum(items) ==
    LET f[n \in 0..Len(items)] ==
            IF n = 0 THEN 0
            ELSE f[n - 1]
                 + (IF /\ items[n].raw_quantity # None
                       /\ Val(items[n].raw_quantity) < 0
                    THEN 0
                    ELSE IF items[n].average_price = None THEN 0
                    ELSE items[n].quantity * Val(items[n].average_price))
    IN  f[Len(items)]

Counted(item) ==
    /\ ~(item.raw_quantity # None /\ Val(item.raw_quantity) < 0)
    /\ item.average_price # None

\* C7 as claimed: the isk_value of every contract event is the sum of
\* quantity x average price over the items whose raw quantity is not negative.
C7_IskValueIsSum ==
    Done("_get_character_contracts") =>
        /\ Len(Emitted) = Len(OwnedContracts)
        /\ \A k \in 1..Len(Emitted) :
               Emitted[k].isk_value = Some(ItemSum(OwnedContracts[k].items))

\* C7 as amended: the isk_value of every contract event is the sum of
\* quantity x average price over the items whose raw quantity is absent or not
\* negative and whose type has a known average price, and it is absent (None,
\* not 0) when the contract has no such item.
C7_IskValueIsSumOrAbsent ==
    Done("_get_character_contracts") =>
        /\ Len(Emitted) = Len(OwnedContracts)
        /\ \A k \in 1..Len(Emitted) :
               LET items == OwnedContracts[k].items
               IN  Emitted[k].isk_value =
                       IF \E n \in 1..Len(items) : Counted(items[n])
                       THEN Some(ItemSum(items))
                       ELSE None

\* the example of the claim: an event was emitted for a contract holding
\* 2 x 100 and a 500 item with a negative raw quantity, and it is worth 200
C7_Witness ==
    /\ Done("_get_character_contracts")
    /\ Len(Emitted) = Len(OwnedContracts)
    /\ \E k \in 1..Len(Emitted) :
          LET items == OwnedContracts[k].items
          IN  /\ Len(items) = 2
              /\ items[1].quantity = 2 /\ items[1].average_price = Some(100)
              /\ items[1].raw_quantity # Some(-1)
              /\ items[2].raw_quantity = Some(-1)
              /\ items[2].average_price = Some(500)
              /\ Emitted[k].isk_value = Some(200)

\* C8: a transaction whose item has no recorded market price, or whose
\* average price is absent or not greater than 0, is skipped without an error,
\* and the remaining transactions still get their events.
C8_UnpricedSkippedSilently ==
    Done("_get_wallet_transactions") =>
        /\ returned.raised = NoError
        /\ Len(returned.value)
              = Len(SelectSeq(OwnedTransactions,
                              LAMBDA t : Qualifies(t.client) /\ Remarkable(t)))
        /\ \A k \in 1..Len(returned.value) :
              \E i \in 1..Len(OwnedTransactions) :
                  /\ PriceKnown(OwnedTransactions[i])
                  /\ AveragePrice(OwnedTransactions[i]) > 0
                  /\ returned.value[k].isk_value
                        = Some(OwnedTransactions[i].quantity
                               * OwnedTransactions[i].unit_price)

\* what the converters that did not fail emitted, in the order of get_all_events
EventsOfReturning(character_query_set) ==
    LET part(result) == IF Returned(result) THEN result.value ELSE <<>>
    IN  part(_get_contact_events(character_query_set))
        \o part(_get_mail_events(character_query_set))
        \o part(_get_character_contracts(character_query_set))
        \o part(_get_wallet_journal_entries(character_query_set))
        \o part(_get_wallet_transactions(character_query_set))

\* C9: get_all_events completes whichever converter fails, and returns the
\* events of the other converters.
C9_ConverterFailureIsolated ==
    Done("get_all_events") =>
        /\ Returned(returned)
        /\ returned.value = EventsOfReturning(call[2])

\* every character ownership as (id, main character name of the owner, name)
ExpectedCharacterOwnerships ==
    Map(as_list(CharacterPks),
        LAMBDA pk : [id |-> pk, main_character_name |-> <<"main of", ownership[pk]>>,
                     character_name |-> character_name(pk)])

\* C10: for an authorized user index answers 200 and its context has an
\* entry "character_ownerships" listing every character ownership.
C10_IndexListsCharacterOwnerships ==
    (Done("index") /\ call[2][2]) =>
        /\ Returned(returned)
        /\ returned.value.status_code = 200
        /\ "character_ownerships" \in DOMAIN Val(returned.value.context)
        /\ Val(returned.value.context)["character_ownerships"]
              = ExpectedCharacterOwnerships


\* the parts of a contract's summary that do not depend on the assignee: the
\* summary string and the issuer label, each only when present
LeadingSummaryParts(contract) ==
    (IF contract.summary # "" THEN << <<"Summary:", contract.summary>> >> ELSE <<>>)
    \o (IF contract.issuer # None
        THEN << <<"Contractor:", Val(contract.issuer)>> >> ELSE <<>>)

\* the availability part, present when the contract has an availability label
\* and an assignee to name
AvailabilityPart(contract) ==
    IF contract.availability # "" /\ contract.assignee # None
    THEN << <<"Availability:", contract.availability,
              name(Val(contract.assignee))>> >>
    ELSE <<>>

\* C11: building the event of a contract with a qualifying counterparty never
\* raises; also without an assignee exactly one event is emitted, and its
\* summary joins only the parts that are present: it starts with the summary
\* string and the issuer label, and with an assignee it ends with the
\* availability part.
C11_SummaryBuiltWithoutAssignee ==
    Done("_get_character_contracts") =>
        LET qualifying == SelectSeq(OwnedContracts,
                                    LAMBDA c : FirstQualifying(c) # None)
        IN  /\ returned.raised = NoError
            /\ Len(returned.value) = Len(qualifying)
            /\ \A k \in 1..Len(qualifying) :
                  LET leading == LeadingSummaryParts(qualifying[k])
                      summary == Val(returned.value[k].summary)
                  IN  /\ Len(summary) >= Len(leading)
                      /\ SubSeq(summary, 1, Len(leading)) = leading
                      /\ qualifying[k].assignee # None =>
                            summary = leading \o AvailabilityPart(qualifying[k])

OwnedDonations ==
    SelectSeq(db.CharacterWalletJournalEntry,
              LAMBDA e : /\ e.character \in call[2]
                         /\ (Qualifies(e.first_party) \/ Qualifies(e.second_party))
                         /\ e.ref_type = "player_donation")

Occurrences(lines, line) == Cardinality({ i \in 1..Len(lines) : lines[i] = line })

ContextLine(entry) == <<"Context:", "context_id_type", Val(entry.context_id)>>
ReasonLine(entry) == <<"Reason:", entry.reason>>

\* C12: the details of every wallet-journal event hold the context line
\* exactly once if and only if the entry has a context id, the reason line
\* exactly once if and only if it has a reason, no other line, and are absent
\* when the entry has neither.
C12_DetailsHoldEachLineOnce ==
    Done("_get_wallet_journal_entries") =>
        /\ Len(Emitted) = Len(OwnedDonations)
        /\ \A k \in 1..Len(Emitted) :
              LET entry == OwnedDonations[k]
                  has_context == entry.context_id # None /\ Val(entry.context_id) # 0
                  has_reason == entry.reason # ""
                  details == Emitted[k].details
              IN  IF ~has_context /\ ~has_reason THEN details = None
                  ELSE /\ details # None
                       /\ Len(Val(details))
                             = (IF has_context THEN 1 ELSE 0)
                               + (IF has_reason THEN 1 ELSE 0)
                       /\ has_context => Occurrences(Val(details), ContextLine(entry)) = 1
                       /\ has_reason => Occurrences(Val(details), ReasonLine(entry)) = 1

(***************************************************************************)
(* What holds of the converters on the calls that return.                  *)
(***************************************************************************)
\* _get_character_contracts, when it returns, emitted one event per contract
\* with a qualifying candidate, for the first one that qualifies.
ContractsReturnedMatch ==
    (Done("_get_character_contracts") /\ Returned(returned)) =>
        C3_OneEventPerQualifyingContract

\* _get_mail_events emits one event per outside participant of every mail
\* whose sender is not among its recipients.
MailsWithoutSelfAddressedSenderMatch ==
    (/\ Done("_get_mail_events")
     /\ \A i \in 1..Len(db.CharacterMail) :
           db.CharacterMail[i].sender \notin Range(db.CharacterMail[i].recipients)) =>
        C4_OneEventPerOutsideParticipant

\* _get_wallet_transactions, when it returns, emitted exactly the remarkable
\* transactions with a qualifying client.
TransactionsReturnedMatch ==
    (Done("_get_wallet_transactions") /\ Returned(returned)) =>
        C5_EventIffRemarkable

\* _get_contact_events emits no event for a target that is not a player
\* character.
ContactsArePlayerCharacters ==
    Done("_get_contact_events") =>
        \A k \in 1..Len(Emitted) :
            is_character(Emitted[k].other_entity) /\ ~is_npc(Emitted[k].other_entity)


\* _get_character_contracts builds every summary as C11 says when each
\* contract with an availability label has an assignee.
ContractsWithAssigneeBuildSummary ==
    (\A i \in 1..Len(db.CharacterContract) :
        db.CharacterContract[i].availability = ""
        \/ db.CharacterContract[i].assignee # None) =>
        C11_SummaryBuiltWithoutAssignee

\* _get_wallet_journal_entries builds the details as C12 says for every entry
\* that does not have both a context id and a reason.
JournalDetailsWithOneLineMatch ==
    (\A i \in 1..Len(db.CharacterWalletJournalEntry) :
        db.CharacterWalletJournalEntry[i].context_id = None
        \/ db.CharacterWalletJournalEntry[i].reason = "") =>
        C12_DetailsHoldEachLineOnce

=============================================================================
